---- MODULE Spec2Model ----
(***************************************************************************)
(* The file-backed cart store (models/cart.js): Cart.addProduct,           *)
(* Cart.deleteProduct and Cart.getCart over the single document cart.json. *)
(* Every call issues fs.readFile and returns; the read's callback computes *)
(* and, for the two mutating calls, issues fs.writeFile.  The steps of the *)
(* model are the steps Node's event loop takes: the call, the completion   *)
(* of the read (the whole callback), and the two halves of fs.writeFile    *)
(* (open with truncation, then the data).                                  *)
(***************************************************************************)
EXTENDS Integers, Sequences, FiniteSets, TLC

\* ------------------------------------------------------------------ bounds
MaxId == 2          \* product ids are 1..MaxId
MaxPrice == 2       \* prices passed by callers are 1..MaxPrice
MaxCalls == 4       \* store calls started in one run
MaxInFlight == 2    \* calls whose I/O is pending at one time
MaxRaceCalls == 2   \* store calls started in one run of overlapping callers
MaxRequests == 2    \* requests the raw HTTP server receives in one run
MaxChunks == 2      \* data chunks of one request body
MaxChunkLen == 2    \* characters of one chunk
MaxTitle == 2       \* product titles of the catalogue are 1..MaxTitle
MaxName == 2        \* user names submitted to the user-list app are 1..MaxName
MaxUserReqs == 4    \* requests the user-list app receives in one run
MaxPosting == 2     \* POST requests whose body is being parsed at one time
MaxDbReqs == 3      \* requests the Sequelize app receives in one run
MaxLookups == 2     \* requests whose user lookup is pending at one time
MaxCatCalls == 4    \* calls on the Product model in one run

Ids == 1 .. MaxId
Prices == 1 .. MaxPrice
Slots == 1 .. MaxInFlight

\* ------------------------------------------------------- JavaScript values
\* A JavaScript value as far as the store's arithmetic can produce one.
Num(n) == [t |-> "number", n |-> n]
NaN == [t |-> "NaN", n |-> 0]
Null == [t |-> "null", n |-> 0]
Undefined == [t |-> "undefined", n |-> 0]

\* ToNumber, as applied by the unary and binary arithmetic operators.
ToNumber(v) ==
  IF v.t = "number" THEN v
  ELSE IF v.t = "null" THEN Num(0)
  ELSE NaN

\* cart.totalPrice + +productPrice
JsAdd(a, b) ==
  LET x == ToNumber(a)
      y == ToNumber(b)
  IN IF x.t = "NaN" \/ y.t = "NaN" THEN NaN ELSE Num(x.n + y.n)

\* updatedCart.totalPrice - (...)
JsSub(a, b) ==
  LET x == ToNumber(a)
      y == ToNumber(b)
  IN IF x.t = "NaN" \/ y.t = "NaN" THEN NaN ELSE Num(x.n - y.n)

\* productPrice * productQty
JsMul(a, b) ==
  LET x == ToNumber(a)
      y == ToNumber(b)
  IN IF x.t = "NaN" \/ y.t = "NaN" THEN NaN ELSE Num(x.n * y.n)

\* Property access on a cart line: a missing property reads as undefined.
Field(prod, f) == IF f \in DOMAIN prod THEN Num(prod[f]) ELSE Undefined

\* --------------------------------------------------------------- documents
\* The states of cart.json: no file, a zero-length file, bytes that are not
\* JSON, or the JSON text of a cart.
Absent == [kind |-> "absent"]
EmptyFile == [kind |-> "empty"]
Garbage == [kind |-> "garbage"]
NoDoc == [kind |-> "none"]          \* "no write was issued"

\* "no cart value": what a callback that issues no write has to serialise.
NoCart == [products |-> <<>>, totalPrice |-> Undefined]

\* { products: [], totalPrice: 0 }
EmptyCart == [products |-> <<>>, totalPrice |-> Num(0)]

\* JSON.stringify(cart): a NaN number is written as null.
Stringify(cart) ==
  [kind |-> "json",
   products |-> cart.products,
   totalPrice |-> IF cart.totalPrice.t = "NaN" THEN Null ELSE cart.totalPrice]

\* JSON.parse(fileContent) succeeds only on JSON text ...
Parses(doc) == doc.kind = "json"

\* ... and yields the cart the text denotes.
Parse(doc) == [products |-> doc.products, totalPrice |-> doc.totalPrice]

\* fs.readFile reports an error when there is no file.
ReadErr(doc) == doc.kind = "absent"

\* fileContent.length > 0
NonEmpty(doc) == doc.kind \in {"garbage", "json"}

\* A variant of findIndex whose test never matches.
FindIndexNever(products, id) == 0

\* products.findIndex(prod => prod.id === id); 0 stands for JavaScript's -1.
FindIndex(products, id) ==
  IF \E i \in 1 .. Len(products) : products[i].id = id
  THEN CHOOSE i \in 1 .. Len(products) :
         /\ products[i].id = id
         /\ \A j \in 1 .. (i - 1) : products[j].id # id
  ELSE 0

\* A variant of the filter whose test never holds.
FilterDropsAll(products, id) == <<>>

\* A variant of the filter with the test turned round (prod.id === id).
RECURSIVE FilterKeepsId(_, _)
FilterKeepsId(products, id) ==
  IF products = <<>> THEN <<>>
  ELSE IF Head(products).id = id
       THEN <<Head(products)>> \o FilterKeepsId(Tail(products), id)
       ELSE FilterKeepsId(Tail(products), id)

\* products.filter(prod => prod.id !== id)
RECURSIVE FilterOut(_, _)
FilterOut(products, id) ==
  IF products = <<>> THEN <<>>
  ELSE IF Head(products).id # id
       THEN <<Head(products)>> \o FilterOut(Tail(products), id)
       ELSE FilterOut(Tail(products), id)

\* ------------------------------------------------- the read callbacks
\* What one run of a readFile callback does: the document it hands to
\* fs.writeFile (NoDoc: none), the carts it hands to cb, in order, the
\* exception that leaves the callback ("none": none), and the cart value it
\* serialised (NoCart: none).
Result(out, delivered, threw) ==
  [out |-> out, delivered |-> delivered, threw |-> threw, cart |-> NoCart]

\* fs.writeFile(p, JSON.stringify(cart), ...): the callback serialises the
\* cart it holds in memory and issues the write.
WriteCart(cart) ==
  [out |-> Stringify(cart), delivered |-> <<>>, threw |-> "none", cart |-> cart]

\* addProduct's view of the document: the parsed cart, or the empty cart when
\* the read failed, the file is empty or the text does not parse.
LoadOrEmpty(doc) ==
  IF ~ReadErr(doc) /\ NonEmpty(doc) /\ Parses(doc) THEN Parse(doc) ELSE EmptyCart

\* A variant of addProduct that never looks for an existing line.
AddUpdateAlwaysAppends(cart, id, productPrice) ==
  [products |-> Append(cart.products, [id |-> id, quantity |-> 1]),
   totalPrice |-> JsAdd(cart.totalPrice, Num(productPrice))]

\* A variant of addProduct that increments a copy of the line and leaves the
\* stored line as it was.
AddUpdateDropsIncrement(cart, id, productPrice) ==
  LET existingProductIndex == FindIndex(cart.products, id)
      products ==
        IF existingProductIndex # 0
        THEN cart.products
        ELSE Append(cart.products, [id |-> id, quantity |-> 1])
  IN [products |-> products,
      totalPrice |-> JsAdd(cart.totalPrice, Num(productPrice))]

\* A variant of addProduct that sets the total to the price instead of adding.
AddUpdateSetsTotal(cart, id, productPrice) ==
  LET existingProductIndex == FindIndex(cart.products, id)
      products ==
        IF existingProductIndex # 0
        THEN [cart.products EXCEPT ![existingProductIndex].quantity = @ + 1]
        ELSE Append(cart.products, [id |-> id, quantity |-> 1])
  IN [products |-> products, totalPrice |-> Num(productPrice)]

\* A variant of addProduct whose new line starts at quantity 0.
AddUpdateStartsAtZero(cart, id, productPrice) ==
  LET existingProductIndex == FindIndex(cart.products, id)
      products ==
        IF existingProductIndex # 0
        THEN [cart.products EXCEPT ![existingProductIndex].quantity = @ + 1]
        ELSE Append(cart.products, [id |-> id, quantity |-> 0])
  IN [products |-> products,
      totalPrice |-> JsAdd(cart.totalPrice, Num(productPrice))]

\* A variant of addProduct that leaves the total as it was read.
AddUpdateKeepsTotal(cart, id, productPrice) ==
  LET existingProductIndex == FindIndex(cart.products, id)
      products ==
        IF existingProductIndex # 0
        THEN [cart.products EXCEPT ![existingProductIndex].quantity = @ + 1]
        ELSE Append(cart.products, [id |-> id, quantity |-> 1])
  IN [products |-> products, totalPrice |-> cart.totalPrice]

\* addProduct: add a new line or increase the quantity, then the total.
AddUpdate(cart, id, productPrice) ==
  LET existingProductIndex == FindIndex(cart.products, id)
      products ==
        IF existingProductIndex # 0
        THEN [cart.products EXCEPT ![existingProductIndex].quantity = @ + 1]
        ELSE Append(cart.products, [id |-> id, quantity |-> 1])
  IN [products |-> products,
      totalPrice |-> JsAdd(cart.totalPrice, Num(productPrice))]

\* A variant of addProduct that parses without the try block.
AddProductCbStrict(doc, id, productPrice) ==
  IF ~ReadErr(doc) /\ NonEmpty(doc) /\ ~Parses(doc)
  THEN Result(NoDoc, <<>>, "SyntaxError")
  ELSE WriteCart(AddUpdate(LoadOrEmpty(doc), id, productPrice))

AddProductCb(doc, id, productPrice) ==
  WriteCart(AddUpdate(LoadOrEmpty(doc), id, productPrice))

\* deleteProduct, once the line was found at productIndex.
DeleteUpdate(cart, productIndex, id, productPrice) ==
  LET productQty == Field(cart.products[productIndex], "qty")
  IN [products |-> FilterOut(cart.products, id),
      totalPrice |-> JsSub(cart.totalPrice, JsMul(Num(productPrice), productQty))]

DeleteProductCb(doc, id, productPrice) ==
  IF ReadErr(doc) THEN Result(NoDoc, <<>>, "none")
  ELSE IF ~Parses(doc) THEN Result(NoDoc, <<>>, "SyntaxError")
  ELSE LET updatedCart == Parse(doc)
           productIndex == FindIndex(updatedCart.products, id)
       IN IF productIndex = 0 THEN Result(NoDoc, <<>>, "none")
          ELSE WriteCart(DeleteUpdate(updatedCart, productIndex, id, productPrice))

\* A variant of getCart that returns on a read error without calling cb.
GetCartCbSilentOnError(doc, cbFails) ==
  LET cbThrew == IF cbFails THEN "CallbackError" ELSE "none"
  IN IF ReadErr(doc) THEN Result(NoDoc, <<>>, "none")
     ELSE IF ~Parses(doc) THEN Result(NoDoc, <<EmptyCart>>, cbThrew)
     ELSE IF cbFails THEN Result(NoDoc, <<Parse(doc), EmptyCart>>, cbThrew)
     ELSE Result(NoDoc, <<Parse(doc)>>, "none")

\* A variant of getCart that rewrites an unreadable document as the empty cart.
GetCartCbRepairs(doc, cbFails) ==
  LET cbThrew == IF cbFails THEN "CallbackError" ELSE "none"
  IN IF ReadErr(doc) \/ ~NonEmpty(doc) THEN Result(NoDoc, <<EmptyCart>>, cbThrew)
     ELSE IF ~Parses(doc)
          THEN [WriteCart(EmptyCart) EXCEPT !.delivered = <<EmptyCart>>, !.threw = cbThrew]
     ELSE IF cbFails THEN Result(NoDoc, <<Parse(doc), EmptyCart>>, cbThrew)
     ELSE Result(NoDoc, <<Parse(doc)>>, "none")

\* getCart; cbFails: the caller's callback throws whenever it is invoked.  The
\* call cb(cart) sits inside the try block, so what it throws is caught and
\* cb runs again with the empty cart.
GetCartCb(doc, cbFails) ==
  LET cbThrew == IF cbFails THEN "CallbackError" ELSE "none"
  IN IF ReadErr(doc) \/ ~NonEmpty(doc) THEN Result(NoDoc, <<EmptyCart>>, cbThrew)
     ELSE IF ~Parses(doc) THEN Result(NoDoc, <<EmptyCart>>, cbThrew)
     ELSE IF cbFails THEN Result(NoDoc, <<Parse(doc), EmptyCart>>, cbThrew)
     ELSE Result(NoDoc, <<Parse(doc)>>, "none")

Callback(call, doc) ==
  IF call.op = "addProduct" THEN AddProductCb(doc, call.id, call.price)
  ELSE IF call.op = "deleteProduct" THEN DeleteProductCb(doc, call.id, call.price)
  ELSE GetCartCb(doc, call.cbFails)

\* ------------------------------------------ the raw HTTP server (src/app.js)
\* Text is a sequence of characters; a body chunk is a non-empty text.
Chars == {"=", "a"}

RECURSIVE TextsUpTo(_)
TextsUpTo(n) ==
  IF n = 0 THEN {<<>>}
  ELSE LET shorter == TextsUpTo(n - 1)
       IN shorter \cup {Append(t, c) : t \in shorter, c \in Chars}

Chunks == TextsUpTo(MaxChunkLen) \ {<<>>}

\* Buffer.concat(body).toString()
RECURSIVE Concat(_)
Concat(body) == IF body = <<>> THEN <<>> ELSE Head(body) \o Concat(Tail(body))

\* The text up to the first "=" (all of it when there is none), and what
\* follows that "=".
RECURSIVE UpToEq(_)
UpToEq(text) ==
  IF text = <<>> \/ Head(text) = "=" THEN <<>>
  ELSE <<Head(text)>> \o UpToEq(Tail(text))

RECURSIVE AfterEq(_)
AfterEq(text) ==
  IF text = <<>> THEN <<>>
  ELSE IF Head(text) = "=" THEN Tail(text)
  ELSE AfterEq(Tail(text))

\* parsedBody.split("=")[1]: the second piece, undefined when there is no "=".
NoText == [t |-> "undefined", s |-> <<>>]
Text(s) == [t |-> "string", s |-> s]
SplitAt1(parsedBody) ==
  IF \E i \in 1 .. Len(parsedBody) : parsedBody[i] = "="
  THEN Text(UpToEq(AfterEq(parsedBody)))
  ELSE NoText

\* The response object: the status code and headers held, whether the head
\* has gone out and with which status, the page written, how often end() was
\* called, how often the status or a header was set after end(), and the
\* error a call on it threw.
NewRes ==
  [statusCode |-> 200, headers |-> {}, headersSent |-> FALSE, sentStatus |-> 0,
   page |-> "none", ended |-> 0, late |-> 0, threw |-> "none"]

\* res.statusCode = code
SetStatus(r, code) ==
  IF r.threw # "none" THEN r
  ELSE [r EXCEPT !.statusCode = code,
                 !.late = IF r.ended > 0 THEN @ + 1 ELSE @]

\* res.setHeader(name, _): throws once the head has gone out.
SetHeader(r, name) ==
  IF r.threw # "none" THEN r
  ELSE IF r.headersSent THEN [r EXCEPT !.threw = "ERR_HTTP_HEADERS_SENT"]
  ELSE [r EXCEPT !.headers = @ \cup {name},
                 !.late = IF r.ended > 0 THEN @ + 1 ELSE @]

\* res.write(page): sends the head if it has not gone out.
ResWrite(r, page) ==
  IF r.threw # "none" THEN r
  ELSE IF r.ended > 0 THEN [r EXCEPT !.threw = "ERR_STREAM_WRITE_AFTER_END"]
  ELSE [r EXCEPT !.headersSent = TRUE,
                 !.sentStatus = IF r.headersSent THEN @ ELSE r.statusCode,
                 !.page = page]

\* res.end()
ResEnd(r) ==
  IF r.threw # "none" THEN r
  ELSE [r EXCEPT !.headersSent = TRUE,
                 !.sentStatus = IF r.headersSent THEN @ ELSE r.statusCode,
                 !.ended = @ + 1]

\* message.txt
NoFile == [kind |-> "absent", s |-> <<>>]
TextFile(s) == [kind |-> "text", s |-> s]

\* The request being handled: its url and method, how far it has got, whether
\* its end event has fired, the body text the end handler built, the message
\* it handed to fs.writeFile and whether that write has completed.
NoConn ==
  [phase |-> "none", url |-> "none", method |-> "none", gotEnd |-> FALSE,
   parsed |-> <<>>, message |-> NoText, saved |-> FALSE]

Urls == {"/", "/message", "/other"}
Methods == {"GET", "POST"}

\* ------------------ the first Product model (02-implementation-overview.md)
Titles == 1 .. MaxTitle

\* JSON.stringify(products)
Products(list) == [kind |-> "json", products |-> list]

\* Product.fetchAll's readFile callback: the arrays it hands to cb, in order,
\* and the exception that leaves it.  After cb([]) on a read error nothing
\* returns, so JSON.parse(fileContent) runs on undefined.
FetchAllCb(doc) ==
  IF ReadErr(doc) THEN [got |-> <<<<>>>>, threw |-> "SyntaxError"]
  ELSE IF ~Parses(doc) THEN [got |-> <<>>, threw |-> "SyntaxError"]
  ELSE [got |-> <<doc.products>>, threw |-> "none"]

\* save's readFile callback: the document it hands to fs.writeFile (NoDoc:
\* none) and the exception that leaves it.
SaveCb(doc, title) ==
  IF ReadErr(doc) THEN [out |-> Products(<<title>>), threw |-> "none"]
  ELSE IF ~Parses(doc) THEN [out |-> NoDoc, threw |-> "SyntaxError"]
  ELSE [out |-> Products(Append(doc.products, title)), threw |-> "none"]

CatIdle == [phase |-> "idle", op |-> "none", title |-> 0, out |-> NoDoc]

\* ------------------------------------------------------------------- state
VARIABLES
  file,        \* cart.json
  calls,       \* per slot: the call whose I/O is pending there, or idle
  started,     \* store calls started so far
  crashed,     \* an exception left a callback: the Node process is gone
  delivered,   \* the carts the most recent read callback handed to cb
  threw,       \* the exception that left the most recent read callback
  prev,        \* the most recently completed call; again: it repeated the
               \* operation and id of the call completed before it
  written,     \* the cart value whose serialisation cart.json now holds, if
               \* the last write to the file put it there whole
  raced,       \* two addProduct calls have read the same document, the
               \* second before the first had written
  origin,      \* the state of cart.json when the process started
  unitPriced,  \* every call so far passed the unit price of its product
  scen         \* progress of "appends of one id at one price, then its removal"

\* The raw HTTP server.
VARIABLES
  conn,        \* the request being handled
  arrived,     \* the data chunks of its body that have arrived, in order
  body,        \* the request listener's array body
  response,    \* its response object res
  msgFile,     \* message.txt
  served,      \* requests received so far
  srvThrew     \* the exception that ended the server process ("none": none)

cartVars ==
  <<file, calls, started, crashed, delivered, threw, prev, written, raced,
    origin, unitPriced, scen>>

httpVars == <<conn, arrived, body, response, msgFile, served, srvThrew>>

\* The first Product model.
VARIABLES
  catFile,     \* products.json
  catCall,     \* the call on the model whose I/O is pending, or idle
  catGot,      \* the arrays the most recent fetchAll callback handed to cb
  catThrew,    \* the exception that ended the process ("none": none)
  catStarted   \* calls on the model so far

catVars == <<catFile, catCall, catGot, catThrew, catStarted>>

\* The in-memory user-list app (javaScript-review.js).
VARIABLES
  users,       \* the array users
  posting,     \* per slot: the POST /add-user whose body is being parsed
  answered,    \* the names of the POSTs answered so far, in that order
  rendered,    \* listOfAllUsers of the most recent GET /users
  usrReqs      \* requests received so far

usrVars == <<users, posting, answered, rendered, usrReqs>>

\* The Sequelize app (TemplateEngines-MVCs/app.js).
VARIABLES
  boot,        \* the position of the start-up promise chain
  synced,      \* sequelize.sync has completed
  dbUsers,     \* the primary keys in the users table
  bootUser,    \* the user the chain holds (0: none)
  listening,   \* app.listen has been called
  lookups,     \* per slot: the request in the user-loading middleware or past it
  dbReqs       \* requests received so far

dbVars == <<boot, synced, dbUsers, bootUser, listening, lookups, dbReqs>>

\* The state of the programs other than the cart store, and for each of the
\* other programs the state of all programs but it.
others == <<httpVars, catVars, usrVars, dbVars>>
exceptHttp == <<cartVars, catVars, usrVars, dbVars>>
exceptCat == <<cartVars, httpVars, usrVars, dbVars>>
exceptUsr == <<cartVars, httpVars, catVars, dbVars>>
exceptDb == <<cartVars, httpVars, catVars, usrVars>>

LookupSlots == 1 .. MaxLookups
Paths == {"admin", "shop", "other"}

\* A request: its path, where it is (lookup: User.findByPk(1) pending; passed:
\* next() was called; hung: the lookup failed and nothing answers), the
\* outcome of its lookup, req.user, how often the middleware called next(),
\* and the handler that ran for it.
NoReq ==
  [phase |-> "idle", path |-> "none", result |-> "none", user |-> "unset",
   nexts |-> 0, handler |-> "none"]

\* The router behind the middleware: /admin, the shop routes, else the 404 page.
HandlerFor(path) ==
  IF path = "admin" THEN "admin" ELSE IF path = "shop" THEN "shop" ELSE "404"

\* The key a new row of the users table gets.
MaxKey(keys) ==
  IF keys = {} THEN 0
  ELSE LET k == CHOOSE x \in keys : \A y \in keys : y <= x IN k

NextKey(keys) == MaxKey(keys) + 1

\* The process starts: sequelize.sync({force: true}) is pending; the database
\* holds the user of an earlier run.
DbInit ==
  /\ boot = "syncing"
  /\ synced = FALSE
  /\ dbUsers = {1}
  /\ bootUser = 0
  /\ listening = FALSE
  /\ lookups = [q \in LookupSlots |-> NoReq]
  /\ dbReqs = 0

Names == 1 .. MaxName
PostSlots == 1 .. MaxPosting
NoPost == [phase |-> "idle", username |-> 0]

\* const users = []
UsrInit ==
  /\ users = <<>>
  /\ posting = [q \in PostSlots |-> NoPost]
  /\ answered = <<>>
  /\ rendered = <<>>
  /\ usrReqs = 0

vars == <<cartVars, others>>

\* The raw HTTP server before its first request.
HttpInit ==
  /\ conn = NoConn
  /\ arrived = <<>>
  /\ body = <<>>
  /\ response = NewRes
  /\ msgFile = NoFile
  /\ served = 0
  /\ srvThrew = "none"

\* The Product model before its first call: there is no products.json yet.
CatInit ==
  /\ catFile = Absent
  /\ catCall = CatIdle
  /\ catGot = <<>>
  /\ catThrew = "none"
  /\ catStarted = 0

\* A call record: the arguments, the position of the call (phase), its number
\* in the order of the calls (seq), the document its read callback saw, the
\* cart it serialised and the text it handed to fs.writeFile, and how many
\* fs.readFile and fs.writeFile requests it has issued (reads, writes) and
\* how many of them have completed (done).
Idle ==
  [phase |-> "idle", op |-> "none", id |-> 0, price |-> 0, cbFails |-> FALSE,
   seq |-> 0, seen |-> NoDoc, cart |-> NoCart, out |-> NoDoc,
   reads |-> 0, writes |-> 0, done |-> 0]

Quiescent == \A s \in Slots : calls[s].phase = "idle"

\* The catalogue: the unit price of each product.
UnitPrice(id) == ((id - 1) % MaxPrice) + 1

\* The scenario monitor: from an empty store, n appends of one id at one
\* price, each written, then one removal of that id at that price, written.
ScenOff == [stage |-> "off", id |-> 0, price |-> 0, n |-> 0]

ScenStep(sc, op, id, price, ok) ==
  IF sc.stage = "start" /\ op = "addProduct" /\ ok
  THEN [stage |-> "adds", id |-> id, price |-> price, n |-> 1]
  ELSE IF sc.stage = "adds" /\ op = "addProduct" /\ ok /\ sc.id = id /\ sc.price = price
  THEN [sc EXCEPT !.n = @ + 1]
  ELSE IF sc.stage = "adds" /\ op = "deleteProduct" /\ ok /\ sc.id = id /\ sc.price = price
  THEN [sc EXCEPT !.stage = "removed"]
  ELSE ScenOff

\* Bookkeeping when a call completes (its last callback has run).
Completes(call, ok) ==
  /\ prev' = [op |-> call.op, id |-> call.id, seq |-> call.seq, ok |-> ok,
              again |-> (prev.ok /\ prev.op = call.op /\ prev.id = call.id)]
  /\ scen' = ScenStep(scen, call.op, call.id, call.price, ok)

Init ==
  /\ file \in {Absent, EmptyFile, Garbage}
  /\ calls = [s \in Slots |-> Idle]
  /\ started = 0
  /\ crashed = FALSE
  /\ delivered = <<>>
  /\ threw = "none"
  /\ prev = [op |-> "none", id |-> 0, seq |-> 0, ok |-> TRUE, again |-> FALSE]
  /\ written = NoCart
  /\ raced = FALSE
  /\ origin = file.kind
  /\ unitPriced = TRUE
  /\ scen = IF file.kind = "garbage" THEN ScenOff
            ELSE [stage |-> "start", id |-> 0, price |-> 0, n |-> 0]
  /\ HttpInit
  /\ CatInit
  /\ UsrInit
  /\ DbInit

\* ----------------------------------------------------------------- actions
\* A variant of a call in which addProduct reads, updates and writes the
\* document before it returns.
IssueBlocking(op, id, price, cbFails) ==
  /\ ~crashed
  /\ started < MaxCalls
  /\ \E s \in Slots :
       /\ calls[s].phase = "idle"
       /\ \A r \in Slots : r < s => calls[r].phase # "idle"
       /\ calls' = [calls EXCEPT ![s] =
            [phase |-> "reading", op |-> op, id |-> id, price |-> price,
             cbFails |-> cbFails, seq |-> started + 1, seen |-> NoDoc,
             cart |-> NoCart, out |-> NoDoc,
             reads |-> 1, writes |-> 0, done |-> 0]]
  /\ started' = started + 1
  /\ file' = (IF op = "addProduct" THEN AddProductCb(file, id, price).out ELSE file)
  /\ UNCHANGED <<crashed, delivered, threw, prev, written, raced, others, origin, scen>>

\* A variant of a call that issues its write together with its read.
IssueWithWrite(op, id, price, cbFails) ==
  /\ ~crashed
  /\ started < MaxCalls
  /\ \E s \in Slots :
       /\ calls[s].phase = "idle"
       /\ \A r \in Slots : r < s => calls[r].phase # "idle"
       /\ calls' = [calls EXCEPT ![s] =
            [phase |-> "reading", op |-> op, id |-> id, price |-> price,
             cbFails |-> cbFails, seq |-> started + 1, seen |-> NoDoc,
             cart |-> NoCart, out |-> NoDoc,
             reads |-> 1, writes |-> (IF op = "getCart" THEN 0 ELSE 1), done |-> 0]]
  /\ started' = started + 1
  /\ UNCHANGED <<file, crashed, delivered, threw, prev, written, raced, others, origin, scen>>

\* A call: it issues fs.readFile and returns to its caller.
Issue(op, id, price, cbFails) ==
  /\ ~crashed
  /\ started < MaxCalls
  /\ \E s \in Slots :
       /\ calls[s].phase = "idle"
       /\ \A r \in Slots : r < s => calls[r].phase # "idle"
       /\ calls' = [calls EXCEPT ![s] =
            [phase |-> "reading", op |-> op, id |-> id, price |-> price,
             cbFails |-> cbFails, seq |-> started + 1, seen |-> NoDoc,
             cart |-> NoCart, out |-> NoDoc,
             reads |-> 1, writes |-> 0, done |-> 0]]
  /\ started' = started + 1
  /\ UNCHANGED <<file, crashed, delivered, threw, prev, written, raced, others, origin, scen>>

CallAddProduct(id, productPrice) ==
  /\ Issue("addProduct", id, productPrice, FALSE)
  /\ unitPriced' = (unitPriced /\ productPrice = UnitPrice(id))

CallDeleteProduct(id, productPrice) ==
  /\ Issue("deleteProduct", id, productPrice, FALSE)
  /\ unitPriced' = (unitPriced /\ productPrice = UnitPrice(id))

CallGetCart(cbFails) ==
  /\ Issue("getCart", 0, 0, cbFails)
  /\ UNCHANGED unitPriced

\* Another addProduct has read the document that is there now and has not
\* yet written: the call in slot s is about to read the same document.
ReadsBehind(s) ==
  \E t \in Slots \ {s} :
    /\ calls[t].op = "addProduct"
    /\ calls[t].phase \in {"writing", "flushing"}
    /\ calls[t].seen = file

\* The read completes and its callback runs to the end: it reads the document
\* as it is now, and either issues the write or finishes the call.
ReadDone(s) ==
  /\ ~crashed
  /\ calls[s].phase = "reading"
  /\ LET call == calls[s]
         res == Callback(call, file)
     IN /\ delivered' = res.delivered
        /\ threw' = res.threw
        /\ crashed' = (res.threw # "none")
        /\ raced' = (raced \/ (call.op = "addProduct" /\ ReadsBehind(s)))
        /\ IF res.out # NoDoc
           THEN /\ calls' = [calls EXCEPT ![s] =
                     [call EXCEPT !.phase = "writing", !.seen = file,
                                  !.cart = res.cart, !.out = res.out,
                                  !.done = @ + 1, !.writes = @ + 1]]
                /\ UNCHANGED <<prev, scen>>
           ELSE /\ calls' = [calls EXCEPT ![s] = Idle]
                /\ Completes(call, res.threw = "none")
  /\ UNCHANGED <<file, started, written, others, origin, unitPriced>>

\* fs.writeFile opens the file for writing, which truncates it.
WriteOpen(s) ==
  /\ calls[s].phase = "writing"
  /\ calls' = [calls EXCEPT ![s].phase = "flushing"]
  /\ file' = EmptyFile
  /\ written' = NoCart
  /\ UNCHANGED <<started, crashed, delivered, threw, prev, raced, others, origin, unitPriced, scen>>

\* A variant of the failing open whose error handler issues the write again.
WriteOpenFailsRetries(s) ==
  /\ calls[s].phase = "writing"
  /\ calls' = [calls EXCEPT ![s].writes = @ + 1, ![s].done = @ + 1]
  /\ UNCHANGED <<file, started, crashed, delivered, threw, prev, written, raced,
                 others, origin, unitPriced, scen>>

\* The open fails: the document is untouched and the error is logged.
WriteOpenFails(s) ==
  /\ calls[s].phase = "writing"
  /\ calls' = [calls EXCEPT ![s] = Idle]
  /\ Completes(calls[s], FALSE)
  /\ UNCHANGED <<file, started, crashed, delivered, threw, written, raced,
                 others, origin, unitPriced>>

\* The data is written from offset 0.  Over bytes another writer put there
\* since this writer's truncation the result is this text or a mix of both.
WriteData(s) ==
  /\ calls[s].phase = "flushing"
  /\ file' \in (IF file.kind = "empty" THEN {calls[s].out} ELSE {calls[s].out, Garbage})
  /\ calls' = [calls EXCEPT ![s] = Idle]
  /\ written' = (IF file' = calls[s].out THEN calls[s].cart ELSE NoCart)
  /\ Completes(calls[s], TRUE)
  /\ UNCHANGED <<started, crashed, delivered, threw, raced, others, origin, unitPriced>>

\* Writing the data fails after the truncation: the error is logged.
WriteDataFails(s) ==
  /\ calls[s].phase = "flushing"
  /\ calls' = [calls EXCEPT ![s] = Idle]
  /\ Completes(calls[s], FALSE)
  /\ UNCHANGED <<file, started, crashed, delivered, threw, written, raced,
                 others, origin, unitPriced>>

\* A caller starts a store call.
Start ==
  \/ \E id \in Ids, productPrice \in Prices : CallAddProduct(id, productPrice)
  \/ \E id \in Ids, productPrice \in Prices : CallDeleteProduct(id, productPrice)
  \/ \E cbFails \in BOOLEAN : CallGetCart(cbFails)

\* The event loop runs the callback of a completed I/O request.
Complete ==
  \/ \E s \in Slots : ReadDone(s)
  \/ \E s \in Slots : WriteOpen(s)
  \/ \E s \in Slots : WriteOpenFails(s)
  \/ \E s \in Slots : WriteData(s)
  \/ \E s \in Slots : WriteDataFails(s)

\* Callers may start a call while others are pending.
Next == Start \/ Complete

Spec == Init /\ [][Next]_vars

\* One caller at a time: a call is started only when no other is pending.
SeqAddProduct(id, productPrice) == Quiescent /\ CallAddProduct(id, productPrice)

SeqDeleteProduct(id, productPrice) == Quiescent /\ CallDeleteProduct(id, productPrice)

SeqGetCart(cbFails) == Quiescent /\ CallGetCart(cbFails)

SeqNext ==
  \/ \E id \in Ids, productPrice \in Prices : SeqAddProduct(id, productPrice)
  \/ \E id \in Ids, productPrice \in Prices : SeqDeleteProduct(id, productPrice)
  \/ \E cbFails \in BOOLEAN : SeqGetCart(cbFails)
  \/ Complete

SeqSpec == Init /\ [][SeqNext]_vars

\* Overlapping callers (two requests handled at the same time): a call may
\* start while the I/O of another is pending.
RaceAddProduct(id, productPrice) ==
  started < MaxRaceCalls /\ CallAddProduct(id, productPrice)

RaceDeleteProduct(id, productPrice) ==
  started < MaxRaceCalls /\ CallDeleteProduct(id, productPrice)

RaceGetCart(cbFails) == started < MaxRaceCalls /\ CallGetCart(cbFails)

RaceNext ==
  \/ \E id \in Ids, productPrice \in Prices : RaceAddProduct(id, productPrice)
  \/ \E id \in Ids, productPrice \in Prices : RaceDeleteProduct(id, productPrice)
  \/ \E cbFails \in BOOLEAN : RaceGetCart(cbFails)
  \/ Complete

RaceSpec == Init /\ [][RaceNext]_vars

\* The same, the event loop eventually running the callback of every I/O
\* request that is pending.
FairRaceSpec ==
  /\ RaceSpec
  /\ \A s \in Slots : WF_vars(ReadDone(s))
  /\ \A s \in Slots : WF_vars(WriteOpen(s) \/ WriteOpenFails(s))
  /\ \A s \in Slots : WF_vars(WriteData(s) \/ WriteDataFails(s))

\* ---------------------------------------------------- the raw HTTP server
\* The request listener runs to its end for a new request.
Request(url, method) ==
  /\ srvThrew = "none"
  /\ served < MaxRequests
  /\ conn.phase \in {"none", "done"}
  /\ LET listens == url # "/" /\ url = "/message" /\ method = "POST"
         r == IF url = "/"
              THEN ResEnd(ResWrite(NewRes, "form"))
              ELSE ResEnd(ResWrite(SetHeader(NewRes, "Content-Type"), "hello"))
     IN /\ conn' = [NoConn EXCEPT !.phase = IF listens THEN "receiving" ELSE "done",
                                  !.url = url, !.method = method]
        /\ response' = r
        /\ srvThrew' = r.threw
  /\ arrived' = <<>>
  /\ body' = <<>>
  /\ served' = served + 1
  /\ UNCHANGED <<msgFile, exceptHttp>>

\* A variant of the data listener that puts the chunk in front.
DataUnshift(chunk) ==
  /\ srvThrew = "none"
  /\ conn.phase = "receiving"
  /\ Len(arrived) < MaxChunks
  /\ arrived' = Append(arrived, chunk)
  /\ body' = <<chunk>> \o body
  /\ UNCHANGED <<conn, response, msgFile, served, srvThrew, exceptHttp>>

\* req.on("data", ...): a chunk of the body arrives.
Data(chunk) ==
  /\ srvThrew = "none"
  /\ conn.phase = "receiving"
  /\ Len(arrived) < MaxChunks
  /\ arrived' = Append(arrived, chunk)
  /\ body' = Append(body, chunk)
  /\ UNCHANGED <<conn, response, msgFile, served, srvThrew, exceptHttp>>

\* req.on("end", ...): the body is complete; the listener builds the message
\* and calls fs.writeFile.  Handed undefined, fs.writeFile throws or writes
\* the text "undefined", depending on the Node version (strict).
End(strict) ==
  /\ srvThrew = "none"
  /\ conn.phase = "receiving"
  /\ LET parsedBody == Concat(body)
         message == SplitAt1(parsedBody)
         throws == message.t = "undefined" /\ strict
     IN /\ conn' = [conn EXCEPT !.gotEnd = TRUE, !.parsed = parsedBody,
                                !.message = message,
                                !.phase = IF throws THEN "done" ELSE "writing"]
        /\ srvThrew' = IF throws THEN "ERR_INVALID_ARG_TYPE" ELSE "none"
  /\ UNCHANGED <<arrived, body, response, msgFile, served, exceptHttp>>

\* The callback of fs.writeFile: the redirect.
Redirect(r) == ResEnd(SetHeader(SetStatus(r, 302), "Location"))

\* The write of message.txt completes and its callback runs.
WriteDone ==
  /\ srvThrew = "none"
  /\ conn.phase = "writing"
  /\ msgFile' = TextFile(IF conn.message.t = "string" THEN conn.message.s
                         ELSE <<"undefined">>)
  /\ conn' = [conn EXCEPT !.phase = "done", !.saved = TRUE]
  /\ response' = Redirect(response)
  /\ srvThrew' = response'.threw
  /\ UNCHANGED <<arrived, body, served, exceptHttp>>

\* The write fails, leaving message.txt as it was or truncated; the callback
\* takes no error argument and runs all the same.
WriteFails ==
  /\ srvThrew = "none"
  /\ conn.phase = "writing"
  /\ msgFile' \in {msgFile, TextFile(<<>>)}
  /\ conn' = [conn EXCEPT !.phase = "done"]
  /\ response' = Redirect(response)
  /\ srvThrew' = response'.threw
  /\ UNCHANGED <<arrived, body, served, exceptHttp>>

HttpNext ==
  \/ \E url \in Urls, method \in Methods : Request(url, method)
  \/ \E chunk \in Chunks : Data(chunk)
  \/ \E strict \in BOOLEAN : End(strict)
  \/ WriteDone
  \/ WriteFails

\* The server alone; the cart store takes no step and its file is absent.
HttpStart == Init /\ file = Absent

HttpSpec == HttpStart /\ [][HttpNext]_vars

\* ------------------------------------------------ the first Product model
\* product.save() or Product.fetchAll(cb): the call issues fs.readFile and
\* returns.
CatCall(op, title) ==
  /\ catThrew = "none"
  /\ catStarted < MaxCatCalls
  /\ catCall.phase = "idle"
  /\ catCall' = [phase |-> "reading", op |-> op, title |-> title, out |-> NoDoc]
  /\ catStarted' = catStarted + 1
  /\ UNCHANGED <<catFile, catGot, catThrew, exceptCat>>

Save(title) == CatCall("save", title)

FetchAll == CatCall("fetchAll", 0)

\* The read of save completes and its callback runs.
SaveRead ==
  /\ catThrew = "none"
  /\ catCall.phase = "reading"
  /\ catCall.op = "save"
  /\ LET r == SaveCb(catFile, catCall.title)
     IN /\ catThrew' = r.threw
        /\ catCall' = IF r.out = NoDoc THEN CatIdle
                      ELSE [catCall EXCEPT !.phase = "writing", !.out = r.out]
  /\ UNCHANGED <<catFile, catGot, catStarted, exceptCat>>

\* The read of fetchAll completes and its callback runs.
FetchAllRead ==
  /\ catThrew = "none"
  /\ catCall.phase = "reading"
  /\ catCall.op = "fetchAll"
  /\ LET r == FetchAllCb(catFile)
     IN /\ catGot' = r.got
        /\ catThrew' = r.threw
  /\ catCall' = CatIdle
  /\ UNCHANGED <<catFile, catStarted, exceptCat>>

\* The write of save completes; its callback logs.
SaveWritten ==
  /\ catCall.phase = "writing"
  /\ catFile' = catCall.out
  /\ catCall' = CatIdle
  /\ UNCHANGED <<catGot, catThrew, catStarted, exceptCat>>

\* The write of save fails, before or after it truncated the file.
SaveWriteFails ==
  /\ catCall.phase = "writing"
  /\ catFile' \in {catFile, EmptyFile}
  /\ catCall' = CatIdle
  /\ UNCHANGED <<catGot, catThrew, catStarted, exceptCat>>

CatNext ==
  \/ \E title \in Titles : Save(title)
  \/ FetchAll
  \/ SaveRead
  \/ FetchAllRead
  \/ SaveWritten
  \/ SaveWriteFails

\* The Product model alone; the cart file is absent.
CatStart == Init /\ file = Absent

CatSpec == CatStart /\ [][CatNext]_vars

\* ---------------------------------------------------- the user-list app
\* GET /: the handler renders the form.
GetIndex ==
  /\ usrReqs < MaxUserReqs
  /\ usrReqs' = usrReqs + 1
  /\ UNCHANGED <<users, posting, answered, rendered, exceptUsr>>

\* GET /users: the handler renders users.
GetUsers ==
  /\ usrReqs < MaxUserReqs
  /\ usrReqs' = usrReqs + 1
  /\ rendered' = users
  /\ UNCHANGED <<users, posting, answered, exceptUsr>>

\* POST /add-user arrives: express.urlencoded starts to read its body.
PostArrives(username) ==
  /\ usrReqs < MaxUserReqs
  /\ usrReqs' = usrReqs + 1
  /\ \E q \in PostSlots :
       /\ posting[q].phase = "idle"
       /\ posting' = [posting EXCEPT ![q] = [phase |-> "parsing", username |-> username]]
  /\ UNCHANGED <<users, answered, rendered, exceptUsr>>

\* A variant of the handler that starts the array afresh.
AddUserOverwrites(q) ==
  /\ posting[q].phase = "parsing"
  /\ users' = <<[name |-> posting[q].username]>>
  /\ answered' = Append(answered, posting[q].username)
  /\ posting' = [posting EXCEPT ![q] = NoPost]
  /\ UNCHANGED <<rendered, usrReqs, exceptUsr>>

\* The body is parsed and the handler runs: users.push, then the redirect.
AddUser(q) ==
  /\ posting[q].phase = "parsing"
  /\ users' = Append(users, [name |-> posting[q].username])
  /\ answered' = Append(answered, posting[q].username)
  /\ posting' = [posting EXCEPT ![q] = NoPost]
  /\ UNCHANGED <<rendered, usrReqs, exceptUsr>>

UsrNext ==
  \/ GetIndex
  \/ GetUsers
  \/ \E username \in Names : PostArrives(username)
  \/ \E q \in PostSlots : AddUser(q)

\* The user-list app alone; the cart file is absent.
UsrStart == Init /\ file = Absent

UsrSpec == UsrStart /\ [][UsrNext]_vars

\* ------------------------------------------------------ the Sequelize app
\* sync({force: true}) completes: the tables were dropped and created anew;
\* the chain calls User.findByPk(1).
SyncDone ==
  /\ boot = "syncing"
  /\ synced' = TRUE
  /\ dbUsers' = {}
  /\ boot' = "finding"
  /\ UNCHANGED <<bootUser, listening, lookups, dbReqs, exceptDb>>

\* A step of the chain rejects: control passes to the catch, which logs.
ChainFails(at) ==
  /\ boot = at
  /\ boot' = "failed"
  /\ UNCHANGED <<synced, dbUsers, bootUser, listening, lookups, dbReqs, exceptDb>>

SyncFails == ChainFails("syncing")

FindFails == ChainFails("finding")

\* A variant in which the rejected User.create is followed by the listen.
CreateFailsListens ==
  /\ boot = "creating"
  /\ boot' = "failed"
  /\ listening' = TRUE
  /\ UNCHANGED <<synced, dbUsers, bootUser, lookups, dbReqs, exceptDb>>

CreateFails == ChainFails("creating")

\* findByPk(1) resolves: with the user, which the chain passes on, or with
\* null, and the chain calls User.create.
FindDone ==
  /\ boot = "finding"
  /\ IF 1 \in dbUsers
     THEN boot' = "found" /\ bootUser' = 1
     ELSE boot' = "creating" /\ bootUser' = 0
  /\ UNCHANGED <<synced, dbUsers, listening, lookups, dbReqs, exceptDb>>

\* User.create resolves with the new row.
CreateDone ==
  /\ boot = "creating"
  /\ dbUsers' = dbUsers \cup {NextKey(dbUsers)}
  /\ bootUser' = NextKey(dbUsers)
  /\ boot' = "found"
  /\ UNCHANGED <<synced, listening, lookups, dbReqs, exceptDb>>

\* The last then: the user is logged and app.listen is called.
Listen ==
  /\ boot = "found"
  /\ boot' = "up"
  /\ listening' = TRUE
  /\ UNCHANGED <<synced, dbUsers, bootUser, lookups, dbReqs, exceptDb>>

\* A request reaches the user-loading middleware, which calls
\* User.findByPk(1) and returns.
Arrives(path) ==
  /\ listening
  /\ dbReqs < MaxDbReqs
  /\ dbReqs' = dbReqs + 1
  /\ \E q \in LookupSlots :
       /\ lookups[q].phase \in {"idle", "passed"}
       /\ \A r \in LookupSlots : r < q => lookups[r].phase \notin {"idle", "passed"}
       /\ lookups' = [lookups EXCEPT ![q] = [NoReq EXCEPT !.phase = "lookup",
                                                          !.path = path]]
  /\ UNCHANGED <<boot, synced, dbUsers, bootUser, listening, exceptDb>>

\* A variant of the failing lookup whose catch calls next().
LookupFailsNext(q) ==
  /\ lookups[q].phase = "lookup"
  /\ lookups' = [lookups EXCEPT ![q].phase = "passed", ![q].result = "error",
                                ![q].nexts = @ + 1,
                                ![q].handler = HandlerFor(lookups[q].path)]
  /\ UNCHANGED <<boot, synced, dbUsers, bootUser, listening, dbReqs, exceptDb>>

\* The lookup rejects: the catch logs and the request is left unanswered.
LookupFails(q) ==
  /\ lookups[q].phase = "lookup"
  /\ lookups' = [lookups EXCEPT ![q].phase = "hung", ![q].result = "error"]
  /\ UNCHANGED <<boot, synced, dbUsers, bootUser, listening, dbReqs, exceptDb>>

\* The lookup resolves: req.user = user; next(), which runs the handler the
\* router finds for the path.
LookupDone(q) ==
  /\ lookups[q].phase = "lookup"
  /\ LET user == IF 1 \in dbUsers THEN "1" ELSE "null"
     IN lookups' = [lookups EXCEPT ![q].phase = "passed", ![q].result = user,
                                   ![q].user = user, ![q].nexts = @ + 1,
                                   ![q].handler = HandlerFor(lookups[q].path)]
  /\ UNCHANGED <<boot, synced, dbUsers, bootUser, listening, dbReqs, exceptDb>>

DbNext ==
  \/ SyncDone
  \/ SyncFails
  \/ FindDone
  \/ FindFails
  \/ CreateDone
  \/ CreateFails
  \/ Listen
  \/ \E path \in Paths : Arrives(path)
  \/ \E q \in LookupSlots : LookupDone(q)
  \/ \E q \in LookupSlots : LookupFails(q)

\* The Sequelize app alone; the cart file is absent.
DbStart == Init /\ file = Absent

DbSpec == DbStart /\ [][DbNext]_vars

\* ------------------------------------------------------------- properties
\* Vocabulary of the properties, stated without the store's own helpers.

\* The read callback of the call in slot s runs in this step.
Ran(s) == calls[s].phase = "reading" /\ calls'[s].phase # "reading"

\* How many lines of products carry this id.
Count(products, id) ==
  Cardinality({i \in 1 .. Len(products) : products[i].id = id})

\* The quantity of the line with this id (there is one).
QtyOf(products, id) ==
  products[CHOOSE i \in 1 .. Len(products) : products[i].id = id].quantity

\* Sum over the lines of unit price times quantity.
RECURSIVE SumUnit(_)
SumUnit(products) ==
  IF products = <<>> THEN 0
  ELSE UnitPrice(Head(products).id) * Head(products).quantity + SumUnit(Tail(products))

\* C1: one caller at a time, from an empty store, every call passing the unit
\* price of its product: once the calls have completed, the stored totalPrice
\* is the sum over the stored lines of unit price times quantity.
C1_TotalIsSum ==
  (/\ Quiescent
   /\ unitPriced
   /\ origin \in {"absent", "empty"}
   /\ file.kind = "json")
  => file.totalPrice = Num(SumUnit(file.products))

\* C2: deleteProduct(id, price) reading a document that holds a line for id
\* with quantity q (and a numeric total) hands fs.writeFile a document without
\* that line whose totalPrice is the total read minus price times q.
C2_DeleteSubtracts ==
  [][\A s \in Slots :
       (/\ Ran(s)
        /\ calls[s].op = "deleteProduct"
        /\ file.kind = "json"
        /\ file.totalPrice.t = "number"
        /\ Count(file.products, calls[s].id) = 1)
       => /\ calls'[s].phase = "writing"
          /\ calls'[s].out.kind = "json"
          /\ Count(calls'[s].out.products, calls[s].id) = 0
          /\ calls'[s].out.totalPrice =
               Num(file.totalPrice.n
                   - calls[s].price * QtyOf(file.products, calls[s].id))]_vars

\* C3: from an empty store, after the second of n >= 1 appends of one id at
\* price p the store holds exactly the line {id, quantity 2} and totalPrice 2p,
\* and after the removal of that id at p that follows the appends the store
\* holds no line and totalPrice 0.
C3_AppendsThenRemove ==
  /\ (scen.stage = "adds" /\ scen.n = 2)
       => file = [kind |-> "json",
                  products |-> <<[id |-> scen.id, quantity |-> 2]>>,
                  totalPrice |-> Num(2 * scen.price)]
  /\ scen.stage = "removed"
       => file = [kind |-> "json", products |-> <<>>, totalPrice |-> Num(0)]

\* C4: addProduct(id, price) reading a cart document that holds a line for id
\* hands fs.writeFile a document with exactly one line for id, whose quantity
\* is the quantity read plus 1; and no addProduct hands fs.writeFile a
\* document with two lines of one id.
C4_AddIncrements ==
  [][\A s \in Slots :
       (Ran(s) /\ calls[s].op = "addProduct")
       => /\ calls'[s].phase = "writing"
          /\ calls'[s].out.kind = "json"
          /\ \A j \in Ids : Count(calls'[s].out.products, j) <= 1
          /\ (file.kind = "json" /\ Count(file.products, calls[s].id) >= 1)
               => /\ Count(calls'[s].out.products, calls[s].id) = 1
                  /\ QtyOf(calls'[s].out.products, calls[s].id)
                       = QtyOf(file.products, calls[s].id) + 1]_vars

\* An addProduct has issued the write of a document in which its id, present
\* in the document it read, has quantity 2 or more.
C4_Witness ==
  \E s \in Slots :
    /\ calls[s].phase = "writing"
    /\ calls[s].op = "addProduct"
    /\ file.kind = "json"
    /\ Count(file.products, calls[s].id) = 1
    /\ Count(calls[s].out.products, calls[s].id) = 1
    /\ QtyOf(calls[s].out.products, calls[s].id) >= 2

\* C5: addProduct(id, price) reading a cart document S without a line for id
\* hands fs.writeFile the lines of S followed by {id, quantity 1}, with
\* totalPrice the total of S plus price (a total stored as null counts as 0,
\* as it does in JavaScript's addition).
C5_AddAppends ==
  [][\A s \in Slots :
       (/\ Ran(s)
        /\ calls[s].op = "addProduct"
        /\ file.kind = "json"
        /\ Count(file.products, calls[s].id) = 0)
       => /\ calls'[s].phase = "writing"
          /\ calls'[s].out.kind = "json"
          /\ calls'[s].out.products
               = file.products \o <<[id |-> calls[s].id, quantity |-> 1]>>
          /\ calls'[s].out.totalPrice =
               Num((IF file.totalPrice.t = "number" THEN file.totalPrice.n ELSE 0)
                   + calls[s].price)]_vars

\* An addProduct has issued the write of a document that appends its id to
\* the lines of the non-empty cart it read.
C5_Witness ==
  \E s \in Slots :
    /\ calls[s].phase = "writing"
    /\ calls[s].op = "addProduct"
    /\ file.kind = "json"
    /\ file.products # <<>>
    /\ file.totalPrice.t = "number"
    /\ Count(file.products, calls[s].id) = 0
    /\ Len(calls[s].out.products) = Len(file.products) + 1

\* The ids of the lines of a document are pairwise distinct.
DistinctIds(doc) ==
  doc.kind = "json"
    => \A i, j \in 1 .. Len(doc.products) :
         i # j => doc.products[i].id # doc.products[j].id

\* C6: one caller at a time, from an empty store: every document handed to
\* fs.writeFile, and the document on disk, has pairwise distinct line ids.
C6_DistinctIds ==
  /\ DistinctIds(file)
  /\ \A s \in Slots : DistinctIds(calls[s].out)

\* The store has written a document with two lines.
C6_Witness ==
  /\ Quiescent
  /\ file.kind = "json"
  /\ Len(file.products) >= 2

\* C7: one caller at a time: a deleteProduct(id, _) that follows a completed
\* deleteProduct(id, _) (no write failure) changes nothing: it issues no
\* write, raises nothing, and the document stays as the first call left it.
C7_RemoveTwice ==
  [][\A s \in Slots :
       (/\ Ran(s)
        /\ calls[s].op = "deleteProduct"
        /\ prev.op = "deleteProduct"
        /\ prev.id = calls[s].id
        /\ prev.ok)
       => /\ calls'[s].phase = "idle"
          /\ threw' = "none"
          /\ file' = file]_vars

\* A deleteProduct has completed right after a deleteProduct of the same id
\* that removed a line.
C7_Witness ==
  /\ Quiescent
  /\ prev.op = "deleteProduct"
  /\ prev.ok
  /\ prev.again
  /\ file.kind = "json"
  /\ file.totalPrice.t = "null"

\* C8: deleteProduct(id, _) reading a store with no line for id (no file, an
\* empty or unreadable file, or a cart without the id) issues no write,
\* leaves the document unchanged and raises nothing.
C8_DeleteAbsentIdNoOp ==
  [][\A s \in Slots :
       (/\ Ran(s)
        /\ calls[s].op = "deleteProduct"
        /\ (file.kind # "json" \/ Count(file.products, calls[s].id) = 0))
       => /\ calls'[s].phase = "idle"
          /\ threw' = "none"
          /\ file' = file]_vars

\* C9: getCart reading no file or an empty file hands cb the empty cart, once,
\* and the store raises nothing (an exception can only be the callback's own).
C9_GetCartEmpty ==
  [][\A s \in Slots :
       (/\ Ran(s)
        /\ calls[s].op = "getCart"
        /\ file.kind \in {"absent", "empty"})
       => /\ delivered' = <<[products |-> <<>>, totalPrice |-> Num(0)]>>
          /\ calls'[s].phase = "idle"
          /\ \/ threw' = "none"
             \/ calls[s].cbFails /\ threw' = "CallbackError"]_vars

\* A getCart has completed on a missing or empty file and delivered a cart.
C9_Witness ==
  /\ prev.op = "getCart"
  /\ prev.ok
  /\ file.kind \in {"absent", "empty"}
  /\ Len(delivered) = 1
  /\ threw = "none"

\* C10: whatever the state of the document and whatever the operation, no
\* exception of the store's own leaves a callback.
C10_NoStoreException ==
  threw # "SyntaxError"

\* C11: on a document that exists and does not parse, getCart hands cb the
\* empty cart (the store raises nothing), and addProduct(id, price) proceeds
\* from the empty cart: it hands fs.writeFile the cart holding only
\* {id, quantity 1} with totalPrice price, and that write replaces the
\* unreadable document.
C11_LenientRead ==
  [][\A s \in Slots :
       /\ (Ran(s) /\ file.kind = "garbage" /\ calls[s].op = "getCart")
            => /\ delivered' = <<[products |-> <<>>, totalPrice |-> Num(0)]>>
               /\ \/ threw' = "none"
                  \/ calls[s].cbFails /\ threw' = "CallbackError"
       /\ (Ran(s) /\ file.kind = "garbage" /\ calls[s].op = "addProduct")
            => /\ threw' = "none"
               /\ calls'[s].phase = "writing"
               /\ calls'[s].out =
                    [kind |-> "json",
                     products |-> <<[id |-> calls[s].id, quantity |-> 1]>>,
                     totalPrice |-> Num(calls[s].price)]
       /\ (/\ origin = "garbage"
           /\ started = 1
           /\ calls[s].op = "addProduct"
           /\ calls[s].phase = "flushing"
           /\ calls'[s].phase = "idle"
           /\ prev'.ok)
            => file' = [kind |-> "json",
                        products |-> <<[id |-> calls[s].id, quantity |-> 1]>>,
                        totalPrice |-> Num(calls[s].price)]]_vars

\* The first call of a process that found cart.json unreadable was an
\* addProduct, and its write has replaced the document.
C11_Witness ==
  /\ origin = "garbage"
  /\ started = 1
  /\ Quiescent
  /\ prev.op = "addProduct"
  /\ prev.ok
  /\ file.kind = "json"
  /\ Len(file.products) = 1

\* C18: getCart is read-only: whatever the document, its callback issues no
\* write and leaves the document as it is, and no write is ever pending for a
\* getCart call.
C18_GetCartReadOnly ==
  [][\A s \in Slots :
       /\ (Ran(s) /\ calls[s].op = "getCart")
            => /\ calls'[s].phase = "idle"
               /\ file' = file
       /\ calls'[s].op = "getCart" => calls'[s].phase = "reading"]_vars

\* A getCart has completed on a stored cart with lines and delivered them.
C18_Witness ==
  /\ prev.op = "getCart"
  /\ file.kind = "json"
  /\ file.products # <<>>
  /\ Len(delivered) >= 1
  /\ delivered[1].products = file.products

\* C15: starting from an empty store, every cart document the store has
\* written has a totalPrice that is a non-negative number and lines that have
\* exactly the fields id and quantity.
C15_WrittenShape ==
  (origin \in {"absent", "empty"} /\ file.kind = "json")
    => /\ file.totalPrice.t = "number"
       /\ file.totalPrice.n >= 0
       /\ \A i \in 1 .. Len(file.products) :
            DOMAIN file.products[i] = {"id", "quantity"}

\* C16: write then load is a round trip: when cart.json holds the
\* serialisation of a cart value S that a mutating call wrote, and nothing has
\* written since, a getCart that reads it hands cb a cart equal to S.
C16_WriteLoadRoundTrip ==
  [][\A s \in Slots :
       (Ran(s) /\ calls[s].op = "getCart" /\ written # NoCart)
         => /\ Len(delivered') >= 1
            /\ delivered'[1] = written]_vars

\* C12: overlapping callers, from an empty store, n addProduct(id, p) calls
\* completed and nothing else: the document holds one line for id whose
\* quantity q is at most n, with totalPrice q * p; and when two of the calls
\* read the same document, the second before the first had written, the later
\* write has replaced the earlier one and an append is lost: q < n.
C12_LostUpdate ==
  (scen.stage = "adds" /\ Quiescent /\ file.kind = "json")
    => /\ Len(file.products) = 1
       /\ file.products[1].id = scen.id
       /\ file.products[1].quantity <= scen.n
       /\ file.totalPrice = Num(file.products[1].quantity * scen.price)
       /\ raced => file.products[1].quantity < scen.n

\* Two addProduct(id, p) calls have read the same empty store and both
\* writes have completed: quantity and totalPrice were increased once.
C12_Witness ==
  /\ raced
  /\ Quiescent
  /\ scen.stage = "adds"
  /\ scen.n = 2
  /\ file = [kind |-> "json",
             products |-> <<[id |-> scen.id, quantity |-> 1]>>,
             totalPrice |-> Num(scen.price)]

\* C13 as stated: with overlapping addProduct calls the at-most-one-line-per-id
\* guarantee is not upheld: once two addProduct calls of one id have read the
\* same document and both have written, the document written holds two lines
\* of one id.
C13_OverlapDuplicates ==
  (raced /\ Quiescent /\ scen.stage = "adds" /\ scen.n >= 2 /\ file.kind = "json")
    => \E i, j \in 1 .. Len(file.products) :
         i # j /\ file.products[i].id = file.products[j].id

\* C13, amended: the at-most-one-line-per-id guarantee holds with overlapping
\* callers as well: every document on disk that parses, and every document
\* handed to fs.writeFile, has at most one line for each id (what overlapping
\* appends lose is a quantity increase, not the uniqueness of the line).
C13_OneLinePerIdUnderOverlap ==
  /\ file.kind = "json" => \A id \in Ids : Count(file.products, id) <= 1
  /\ \A s \in Slots :
       calls[s].out.kind = "json"
         => \A id \in Ids : Count(calls[s].out.products, id) <= 1

\* Two addProduct calls of one id have read the same document, both have
\* written, and the document holds a single line for the id.
C13_Witness ==
  /\ raced
  /\ scen.stage = "adds"
  /\ scen.n >= 2
  /\ file.kind = "json"
  /\ Count(file.products, scen.id) = 1

\* The I/O requests on cart.json that the call in slot s has issued and
\* that have not completed.
PendingIO(s) == calls[s].reads + calls[s].writes - calls[s].done

\* The same, over the slots 1 .. n.
RECURSIVE PendingUpTo(_)
PendingUpTo(n) == IF n = 0 THEN 0 ELSE PendingIO(n) + PendingUpTo(n - 1)

\* C14 as stated: in every reachable state at most one read or write of
\* cart.json issued by the store is pending.
C14_OneIOPending == PendingUpTo(MaxInFlight) <= 1

\* C14, amended: each store call has at most one read or write of cart.json
\* pending at any time (its write is issued in the callback of its read);
\* calls that overlap have their requests pending together, one per call.
C14_OneIOPerCall ==
  /\ \A s \in Slots : PendingIO(s) <= 1
  /\ \A s \in Slots : calls[s].phase # "idle" => PendingIO(s) = 1
  /\ PendingUpTo(MaxInFlight) = Cardinality({s \in Slots : calls[s].phase # "idle"})

\* A read and a write of cart.json, issued by two calls, are pending together.
C14_Witness ==
  \E s, t \in Slots :
    /\ calls[s].phase = "reading"
    /\ calls[t].phase \in {"writing", "flushing"}
    /\ PendingUpTo(MaxInFlight) >= 2

C19_GetCartCompletes ==
  \A s \in Slots, n \in 1 .. MaxRaceCalls :
    (calls[s].op = "getCart" /\ calls[s].seq = n /\ calls[s].phase = "reading")
      ~> \/ prev.op = "getCart" /\ prev.seq = n /\ Len(delivered) >= 1
         \/ threw = "CallbackError"

\* C20: a store call returns to its caller (which then redirects) before any
\* of its I/O has completed: the step that starts a call leaves cart.json as
\* it is and leaves the call with its read pending and no write issued.  So
\* a getCart started after an addProduct returned can deliver the document
\* without the new item (the witness).
C20_ReturnsBeforeWrite ==
  [][started' = started + 1
       => /\ file' = file
          /\ \E s \in Slots :
               /\ calls[s].phase = "idle"
               /\ calls'[s].phase = "reading"
               /\ calls'[s].seq = started'
               /\ calls'[s].writes = 0
               /\ calls'[s].done = 0
               /\ \A t \in Slots \ {s} : calls'[t] = calls[t]]_vars

\* An addProduct(id, _) has returned and its write has not completed; a
\* getCart started after it has handed cb a cart without a line for id.
C20_Witness ==
  \E s \in Slots :
    /\ calls[s].op = "addProduct"
    /\ calls[s].phase \in {"reading", "writing"}
    /\ prev.op = "getCart"
    /\ prev.seq > calls[s].seq
    /\ Len(delivered) = 1
    /\ Count(delivered[1].products, calls[s].id) = 0

\* C25: getCart invokes its callback exactly once per call, whatever the
\* document, also when the callback throws while handling a parsed cart.
C25_CallbackOnce ==
  [][\A s \in Slots :
       (Ran(s) /\ calls[s].op = "getCart") => Len(delivered') = 1]_vars

\* C26: callers overlapping or not: in every document the store has written,
\* and in every document it has handed to fs.writeFile, the quantity of each
\* line is an integer of at least 1.
C26_QuantityPositive ==
  /\ file.kind = "json"
       => \A i \in 1 .. Len(file.products) :
            file.products[i].quantity \in Nat /\ file.products[i].quantity >= 1
  /\ \A s \in Slots :
       calls[s].out.kind = "json"
         => \A i \in 1 .. Len(calls[s].out.products) :
              /\ calls[s].out.products[i].quantity \in Nat
              /\ calls[s].out.products[i].quantity >= 1

\* The store has written a line it had incremented.
C26_Witness ==
  /\ file.kind = "json"
  /\ \E i \in 1 .. Len(file.products) : file.products[i].quantity = 2

\* The lines of products whose id is not id, in their order.
Others(products, id) == SelectSeq(products, LAMBDA prod : prod.id # id)

C21_RedirectAfterWrite ==
  (conn.url = "/message" /\ conn.method = "POST" /\ response.ended >= 1)
    => /\ response.sentStatus = 302
       /\ "Location" \in response.headers
       /\ conn.saved

\* C22: for a POST to /message the write of message.txt is started only after
\* the end event of the request, and the body text the message is taken from
\* is the concatenation of all the chunks that arrived, in their order.
C22_WriteAfterEnd ==
  /\ conn.phase = "writing"
       => /\ conn.gotEnd
          /\ conn.url = "/message"
          /\ conn.method = "POST"
  /\ conn.gotEnd
       => /\ Len(body) = Len(arrived)
          /\ \A i \in 1 .. Len(arrived) : body[i] = arrived[i]
          /\ conn.parsed = Concat(arrived)
  /\ (conn.saved \/ conn.phase = "writing") => conn.gotEnd

\* A body that arrived in two different chunks has ended and its write is
\* pending.
C22_Witness ==
  /\ conn.phase = "writing"
  /\ Len(arrived) = 2
  /\ arrived[1] # arrived[2]
  /\ conn.parsed = arrived[1] \o arrived[2]

\* C24: the response of every request is ended exactly once, and no status
\* code or header is set on it after it has ended.
C24_EndedOnce ==
  /\ response.ended <= 1
  /\ response.late = 0
  /\ conn.phase = "done" /\ srvThrew = "none" => response.ended = 1

\* C23: in the first Product model, fetchAll on a read error (no
\* products.json yet) calls cb with the empty array, exactly once, and raises
\* no error.
C23_FetchAllOnReadError ==
  [][(/\ catCall.op = "fetchAll"
      /\ catCall.phase = "reading"
      /\ catCall'.phase = "idle"
      /\ ReadErr(catFile))
       => /\ catGot' = << <<>> >>
          /\ catThrew' = "none"]_vars

\* C28: in the user-list app each answered POST /add-user has appended one
\* entry (users lists the names of the answered POSTs in the order they were
\* answered), no other request changes users, users only grows, and every
\* GET /users renders at least the users of the POSTs answered before it, in
\* insertion order.
C28_NoAddLost ==
  [][/\ Len(users') = Len(answered')
     /\ \A i \in 1 .. Len(answered') : users'[i] = [name |-> answered'[i]]
     /\ Len(users') >= Len(users)
     /\ \A i \in 1 .. Len(users) : users'[i] = users[i]
     /\ Len(answered') = Len(answered) => users' = users
     /\ Len(answered') # Len(answered) => Len(users') = Len(users) + 1
     /\ rendered' # rendered
          => /\ Len(rendered') >= Len(answered)
             /\ \A i \in 1 .. Len(answered) : rendered'[i].name = answered[i]]_vars

\* Two POSTs with different names were answered and a GET /users handled
\* after them rendered both users.
C28_Witness ==
  /\ Len(rendered) = 2
  /\ rendered = users
  /\ rendered[1].name # rendered[2].name

\* C29: the Sequelize app listens only once the sync has completed and the
\* user with primary key 1 exists, found or created; when the sync, the
\* lookup or the creation fails, it never listens.
C29_ListenAfterUser ==
  /\ listening => (synced /\ 1 \in dbUsers /\ bootUser = 1 /\ boot = "up")
  /\ boot = "failed" => ~listening
  /\ boot \in {"syncing", "finding", "creating", "found"} => ~listening

\* The server listens after the user was created in the fresh table.
C29_Witness ==
  /\ listening
  /\ synced
  /\ dbUsers = {1}

\* C30: no admin, shop or 404 handler has run for a request whose user lookup
\* has not resolved with its result assigned to req.user, and the middleware
\* has called next() at most once for a request.
C30_HandlerAfterLookup ==
  \A q \in LookupSlots :
    /\ lookups[q].nexts <= 1
    /\ lookups[q].handler # "none"
         => /\ lookups[q].result \in {"1", "null"}
            /\ lookups[q].user = lookups[q].result
            /\ lookups[q].nexts = 1
            /\ listening
    /\ lookups[q].phase \in {"lookup", "hung"}
         => /\ lookups[q].handler = "none"
            /\ lookups[q].nexts = 0

\* The 404 handler has run for a request with req.user set, while the lookup
\* of another request is pending.
C30_Witness ==
  \E q, r \in LookupSlots :
    /\ lookups[q].handler = "404"
    /\ lookups[q].user = "1"
    /\ lookups[r].phase = "lookup"

====
